---- MODULE Spec2Model ----
(***************************************************************************)
(* A model of the financial agent coordinator: query routing, tool         *)
(* execution, PII protection and answer synthesis                          *)
(* (helper_modules/agent_coordinator.py, helper_modules/function_tools.py).*)
(*                                                                         *)
(* Texts are TLA+ strings; TLC evaluates Len, SubSeq and \o on them, so    *)
(* the Python string operations of the source are modelled character by    *)
(* character.                                                              *)
(***************************************************************************)
EXTENDS Integers, Sequences, FiniteSets, TLC

(***************************************************************************)
(* Python string primitives used by the source.                            *)
(***************************************************************************)

\* s[i] for a 1-based position i.
CharAt(s, i) == SubSeq(s, i, i)

\* The characters str.strip() and the regex class \s remove.
IsSpace(c) == c \in {" ", "\n", "\t", "\r"}

\* The regex class \d.
IsDigit(c) == c \in {"0", "1", "2", "3", "4", "5", "6", "7", "8", "9"}

\* `sub in s`.
Contains(s, sub) ==
    \E i \in 1..(Len(s) - Len(sub) + 1) : SubSeq(s, i, i + Len(sub) - 1) = sub

\* s.find(sub) + 1 searched from position `from` on: the first position >= from
\* where sub occurs, 0 when there is none.
IndexFrom(s, sub, from) ==
    LET hits == {i \in from .. (Len(s) - Len(sub) + 1) :
                    SubSeq(s, i, i + Len(sub) - 1) = sub}
    IN  IF hits = {} THEN 0 ELSE CHOOSE i \in hits : \A j \in hits : i <= j

LowerChar(c) ==
    CASE c = "A" -> "a" [] c = "B" -> "b" [] c = "C" -> "c" [] c = "D" -> "d"
      [] c = "E" -> "e" [] c = "F" -> "f" [] c = "G" -> "g" [] c = "H" -> "h"
      [] c = "I" -> "i" [] c = "J" -> "j" [] c = "K" -> "k" [] c = "L" -> "l"
      [] c = "M" -> "m" [] c = "N" -> "n" [] c = "O" -> "o" [] c = "P" -> "p"
      [] c = "Q" -> "q" [] c = "R" -> "r" [] c = "S" -> "s" [] c = "T" -> "t"
      [] c = "U" -> "u" [] c = "V" -> "v" [] c = "W" -> "w" [] c = "X" -> "x"
      [] c = "Y" -> "y" [] c = "Z" -> "z" [] OTHER -> c

\* s.lower().
RECURSIVE Lower(_)
Lower(s) == IF s = "" THEN "" ELSE LowerChar(CharAt(s, 1)) \o Lower(Tail(s))

RECURSIVE LStrip(_)
LStrip(s) == IF s # "" /\ IsSpace(CharAt(s, 1)) THEN LStrip(Tail(s)) ELSE s

RECURSIVE RStrip(_)
RStrip(s) ==
    IF s # "" /\ IsSpace(CharAt(s, Len(s))) THEN RStrip(SubSeq(s, 1, Len(s) - 1)) ELSE s

\* s.strip().
Strip(s) == RStrip(LStrip(s))

\* s.split(sep): the pieces between the occurrences of a non-empty separator.
RECURSIVE Split(_, _)
Split(s, sep) ==
    LET i == IndexFrom(s, sep, 1)
    IN  IF i = 0 THEN <<s>>
        ELSE <<SubSeq(s, 1, i - 1)>> \o Split(SubSeq(s, i + Len(sep), Len(s)), sep)

\* s.split(sep, 1): at most one cut.
Split1(s, sep) ==
    LET i == IndexFrom(s, sep, 1)
    IN  IF i = 0 THEN <<s>>
        ELSE <<SubSeq(s, 1, i - 1), SubSeq(s, i + Len(sep), Len(s))>>

\* sep.join(parts).
RECURSIVE Join(_, _)
Join(parts, sep) ==
    IF parts = <<>> THEN ""
    ELSE IF Len(parts) = 1 THEN parts[1]
    ELSE parts[1] \o sep \o Join(Tail(parts), sep)

\* s.replace(old, new): every non-overlapping occurrence, left to right; with
\* an empty `old` Python inserts `new` before every character and at the end.
RECURSIVE Replace(_, _, _)
Replace(s, old, new) ==
    IF old = ""
    THEN IF s = "" THEN new
         ELSE new \o CharAt(s, 1) \o Replace(Tail(s), old, new)
    ELSE LET i == IndexFrom(s, old, 1)
         IN  IF i = 0 THEN s
             ELSE SubSeq(s, 1, i - 1) \o new
                  \o Replace(SubSeq(s, i + Len(old), Len(s)), old, new)

\* c * n.
RECURSIVE Repeat(_, _)
Repeat(c, n) == IF n <= 0 THEN "" ELSE c \o Repeat(c, n - 1)

Min(a, b) == IF a <= b THEN a ELSE b

\* re.sub(r'[^\d]', '', s): the digits of s.
RECURSIVE Digits(_)
Digits(s) ==
    IF s = "" THEN ""
    ELSE (IF IsDigit(CharAt(s, 1)) THEN CharAt(s, 1) ELSE "") \o Digits(Tail(s))

DigitValue(c) ==
    CASE c = "0" -> 0 [] c = "1" -> 1 [] c = "2" -> 2 [] c = "3" -> 3 [] c = "4" -> 4
      [] c = "5" -> 5 [] c = "6" -> 6 [] c = "7" -> 7 [] c = "8" -> 8 [] c = "9" -> 9

\* int(x) of a run of digits.
RECURSIVE ToInt(_)
ToInt(s) ==
    IF s = "" THEN 0
    ELSE ToInt(SubSeq(s, 1, Len(s) - 1)) * 10 + DigitValue(CharAt(s, Len(s)))

(***************************************************************************)
(* Python literals: repr of a list of names, ast.literal_eval, re.findall. *)
(***************************************************************************)

\* str(cols) / f"{column_names}" of a list of strings that hold no quote and
\* no backslash: "['a', 'b']".
RECURSIVE ReprItems(_)
ReprItems(cols) ==
    IF cols = <<>> THEN ""
    ELSE IF Len(cols) = 1 THEN "'" \o cols[1] \o "'"
    ELSE "'" \o cols[1] \o "', " \o ReprItems(Tail(cols))

PyRepr(cols) == "[" \o ReprItems(cols) \o "]"

IsQuote(c) == c \in {"'", "\""}

\* The elements of a list display after its "[": quoted strings without
\* escapes, separated by commas, a trailing comma allowed, closed by "]" with
\* nothing after it.  [ok |-> FALSE] is a SyntaxError/ValueError.
RECURSIVE EvalItems(_, _)
EvalItems(s, acc) ==
    LET t == LStrip(s)
    IN  IF t = "" THEN [ok |-> FALSE, items |-> <<>>]
        ELSE IF CharAt(t, 1) = "]"
        THEN [ok |-> Strip(Tail(t)) = "", items |-> acc]
        ELSE IF ~IsQuote(CharAt(t, 1)) THEN [ok |-> FALSE, items |-> <<>>]
        ELSE LET q == CharAt(t, 1)
                 close == IndexFrom(t, q, 2)
             IN  IF close = 0 \/ Contains(SubSeq(t, 2, close - 1), "\\")
                 THEN [ok |-> FALSE, items |-> <<>>]
                 ELSE LET item == SubSeq(t, 2, close - 1)
                          rest == LStrip(SubSeq(t, close + 1, Len(t)))
                      IN  IF rest = "" THEN [ok |-> FALSE, items |-> <<>>]
                          ELSE IF CharAt(rest, 1) = ","
                          THEN EvalItems(Tail(rest), Append(acc, item))
                          ELSE IF CharAt(rest, 1) = "]"
                          THEN [ok |-> Strip(Tail(rest)) = "",
                                items |-> Append(acc, item)]
                          ELSE [ok |-> FALSE, items |-> <<>>]

\* ast.literal_eval(s) on the literals the model feeds it: a list display of
\* quoted strings gives kind "list", a run of digits kind "int" (an object
\* that is not iterable), anything else raises (kind "raise").
LiteralEval(s) ==
    LET t == Strip(s)
    IN  IF t # "" /\ CharAt(t, 1) = "["
        THEN LET r == EvalItems(Tail(t), <<>>)
             IN  IF r.ok THEN [kind |-> "list", items |-> r.items, int |-> 0]
                 ELSE [kind |-> "raise", items |-> <<>>, int |-> 0]
        ELSE IF t # "" /\ Digits(t) = t
        THEN [kind |-> "int", items |-> <<>>, int |-> ToInt(t)]
        ELSE [kind |-> "raise", items |-> <<>>, int |-> 0]

\* re.findall(q + "([^" + q + "]+)" + q, s) for a quote character q.
RECURSIVE FindallQuoted(_, _)
FindallQuoted(s, q) ==
    LET open == IndexFrom(s, q, 1)
    IN  IF open = 0 THEN <<>>
        ELSE LET close == IndexFrom(s, q, open + 1)
             IN  IF close = 0 THEN <<>>
                 ELSE IF close = open + 1
                 THEN FindallQuoted(SubSeq(s, open + 1, Len(s)), q)
                 ELSE <<SubSeq(s, open + 1, close - 1)>>
                      \o FindallQuoted(SubSeq(s, close + 1, Len(s)), q)

RECURSIVE StripAll(_)
StripAll(parts) ==
    IF parts = <<>> THEN <<>> ELSE <<Strip(parts[1])>> \o StripAll(Tail(parts))

\* The elements of a sequence, as a set.
Range(f) == {f[i] : i \in DOMAIN f}

(***************************************************************************)
(* PII detection and masking (function_tools.py, pii_protection_tool).     *)
(***************************************************************************)

pii_patterns ==
    {"email", "email_address", "e_mail", "e-mail", "email_addr",
     "phone", "phone_number", "telephone", "mobile", "cell", "contact_number",
     "first_name", "last_name", "full_name", "customer_name", "name",
     "given_name", "surname",
     "address", "street_address", "mailing_address", "home_address",
     "physical_address",
     "ssn", "social_security_number", "tax_id", "tax_id_number", "ssn_number"}

\* detect_pii_fields: the names whose lower-cased, stripped form is a lexicon
\* entry or contains one.
detect_pii_fields(field_names) ==
    {f \in Range(field_names) :
        LET field_lower == Strip(Lower(f))
        IN  \/ field_lower \in pii_patterns
            \/ \E pattern \in pii_patterns : Contains(field_lower, pattern)}

\* Mutation of mask_field_value: the rule for names and the default rule give
\* one asterisk less.
mask_field_value_one_star_less(field_name, value) ==
    LET field_lower == Lower(field_name)
        digits == Digits(value)
        last4 == SubSeq(digits, Len(digits) - 3, Len(digits))
        stars == Repeat("*", Min(Len(value), 4) - 1)
    IN  IF value = "" THEN value
        ELSE IF Contains(field_lower, "email")
        THEN IF Contains(value, "@") /\ Len(Split(value, "@")) = 2
             THEN "***@" \o Split(value, "@")[2]
             ELSE "***"
        ELSE IF Contains(field_lower, "phone") \/ Contains(field_lower, "telephone")
        THEN IF Len(digits) >= 4 THEN "***-***-" \o last4 ELSE "***-***-****"
        ELSE IF Contains(field_lower, "name")
        THEN stars
        ELSE IF Contains(field_lower, "address")
        THEN IF Len(value) > 5
             THEN SubSeq(value, 1, 2) \o Repeat("*", Len(value) - 2)
             ELSE "***"
        ELSE IF Contains(field_lower, "ssn") \/ Contains(field_lower, "social")
        THEN IF Len(digits) >= 4 THEN "***-**-" \o last4 ELSE "***-**-****"
        ELSE stars

\* mask_field_value: the masking rule is chosen by the first substring test the
\* field name passes.
mask_field_value(field_name, value) ==
    LET field_lower == Lower(field_name)
        digits == Digits(value)
        last4 == SubSeq(digits, Len(digits) - 3, Len(digits))
        stars == Repeat("*", Min(Len(value), 4))
    IN  IF value = "" THEN value
        ELSE IF Contains(field_lower, "email")
        THEN IF Contains(value, "@") /\ Len(Split(value, "@")) = 2
             THEN "***@" \o Split(value, "@")[2]
             ELSE "***"
        ELSE IF Contains(field_lower, "phone") \/ Contains(field_lower, "telephone")
        THEN IF Len(digits) >= 4 THEN "***-***-" \o last4 ELSE "***-***-****"
        ELSE IF Contains(field_lower, "name")
        THEN stars
        ELSE IF Contains(field_lower, "address")
        THEN IF Len(value) > 5
             THEN SubSeq(value, 1, 2) \o Repeat("*", Len(value) - 2)
             ELSE "***"
        ELSE IF Contains(field_lower, "ssn") \/ Contains(field_lower, "social")
        THEN IF Len(digits) >= 4 THEN "***-**-" \o last4 ELSE "***-**-****"
        ELSE stars

\* The column-name parsing of pii_protection_tool: literal_eval, then the two
\* regex extractions, then the comma split.
ToolParseColumns(column_names) ==
    LET ev == LiteralEval(column_names)
        single == FindallQuoted(column_names, "'")
        double == FindallQuoted(column_names, "\"")
    IN  IF ev.kind # "raise" THEN ev
        ELSE [kind |-> "list", int |-> 0,
              items |-> IF single # <<>> THEN single
                        ELSE IF double # <<>> THEN double
                        ELSE StripAll(Split(column_names, ","))]

\* One pass of the inner `for col in cols` loop over one line: st.line is the
\* line so far, st.notice the masked field names so far.
RECURSIVE MaskCols(_, _, _, _)
MaskCols(st, cols, k, pii_fields) ==
    IF k > Len(cols) THEN st
    ELSE LET parts == Split1(st.line, ":")
             field_name == Strip(parts[1])
             value == Strip(parts[2])
             hit == /\ Contains(st.line, cols[k])
                    /\ Len(parts) = 2
                    /\ field_name \in pii_fields
             next == IF hit
                     THEN [line |-> Replace(st.line, value,
                                            mask_field_value(field_name, value)),
                           notice |-> IF field_name \in Range(st.notice)
                                      THEN st.notice
                                      ELSE Append(st.notice, field_name)]
                     ELSE st
         IN  MaskCols(next, cols, k + 1, pii_fields)

\* The body of `for line in lines` for one line.
MaskLine(line, notice, cols, pii_fields) ==
    IF Contains(line, ":") /\ \E k \in DOMAIN cols : Contains(line, cols[k])
    THEN MaskCols([line |-> line, notice |-> notice], cols, 1, pii_fields)
    ELSE [line |-> line, notice |-> notice]

\* `for line in lines`: the protected lines and the notice list.
RECURSIVE MaskLines(_, _, _, _, _)
MaskLines(lines, k, st, cols, pii_fields) ==
    IF k > Len(lines) THEN st
    ELSE LET r == MaskLine(lines[k], st.notice, cols, pii_fields)
         IN  MaskLines(lines, k + 1,
                       [lines |-> Append(st.lines, r.line), notice |-> r.notice],
                       cols, pii_fields)

AppliedNotice ==
    "\n\n[PII Protection Applied] The following fields have been masked for privacy: "

ErrorNotice == "\n\n[PII Protection Error] Could not apply masking: "

NotIterable == "'int' object is not iterable"

\* Mutation of ProtectedResult: no notice is appended.
ProtectedResult_without_notice(done) == Join(done.lines, "\n")

\* The end of pii_protection_tool: the protected lines joined, and the notice
\* naming the masked fields when there is one.
ProtectedResult(done) ==
    IF done.notice # <<>>
    THEN Join(done.lines, "\n") \o AppliedNotice \o Join(done.notice, ", ")
    ELSE Join(done.lines, "\n")

\* pii_protection_tool from the detection on: the result as it is when no
\* column is flagged, else its lines masked one by one.
ProtectColumns(database_results, cols, pii_fields) ==
    IF pii_fields = {} THEN database_results
    ELSE ProtectedResult(MaskLines(Split(database_results, "\n"), 1,
                                   [lines |-> <<>>, notice |-> <<>>],
                                   cols, pii_fields))

\* pii_protection_tool after the parsing of the column names: a column list
\* that is a number cannot be iterated, and the handler around the tool's
\* body returns the result with the error notice.
ProtectParsed(database_results, parsed) ==
    IF parsed.kind = "int" THEN database_results \o ErrorNotice \o NotIterable
    ELSE ProtectColumns(database_results, parsed.items,
                        detect_pii_fields(parsed.items))

\* pii_protection_tool(database_results, column_names).
pii_protection_tool(database_results, column_names) ==
    ProtectParsed(database_results, ToolParseColumns(column_names))

(***************************************************************************)
(* The database tool (function_tools.py, database_query_tool).             *)
(***************************************************************************)

\* The rows of one result row: "  <col>: <value>\n" per column.
RECURSIVE FormatRow(_, _, _)
FormatRow(column_names, row, k) ==
    IF k > Len(column_names) THEN ""
    ELSE "  " \o column_names[k] \o ": " \o row[k] \o "\n"
         \o FormatRow(column_names, row, k + 1)

\* "Row i:\n" and its columns, then an empty line, for the rows from i on.
RECURSIVE FormatRows(_, _, _)
FormatRows(column_names, rows, i) ==
    IF i > Len(rows) THEN ""
    ELSE "Row " \o ToString(i) \o ":\n" \o FormatRow(column_names, rows[i], 1) \o "\n"
         \o FormatRows(column_names, rows, i + 1)

\* Mutation of FormatResult: the SQL executed is not reported.
FormatResult_without_sql(sql_query, column_names, rows) ==
    "COLUMNS: " \o PyRepr(column_names) \o "\n\n"
    \o "Database Results:\n"
    \o (IF rows = <<>> THEN "No results found."
        ELSE FormatRows(column_names, rows, 1))

\* The formatted result of a successful execution, with the COLUMNS: line the
\* PII step looks for.
FormatResult(sql_query, column_names, rows) ==
    "SQL Query: " \o sql_query \o "\n\n"
    \o "COLUMNS: " \o PyRepr(column_names) \o "\n\n"
    \o "Database Results:\n"
    \o (IF rows = <<>> THEN "No results found."
        ELSE FormatRows(column_names, rows, 1))

\* re.sub(fence + r'\s*', '', s): every occurrence of the fence and the white
\* space after it is removed.
RECURSIVE RemoveFence(_, _)
RemoveFence(s, fence) ==
    LET i == IndexFrom(s, fence, 1)
    IN  IF i = 0 THEN s
        ELSE SubSeq(s, 1, i - 1)
             \o RemoveFence(LStrip(SubSeq(s, i + Len(fence), Len(s))), fence)

\* An outcome of a call of the completion service: it raised, or it answered
\* with a text.
Raise(message) == [raised |-> TRUE, text |-> message]
Answered(text) == [raised |-> FALSE, text |-> text]
Raised == Raise("Connection error.")

\* The back quote of a Markdown code fence: a TLA+ string cannot hold that
\* character, so the model writes it as ~ in the texts of the completion.
Tick == "~"
Fence == Tick \o Tick \o Tick

\* Mutation of generate_sql: no statement stands in when the completion call
\* raises, and the empty text is executed.
generate_sql_without_stand_in(completion) ==
    LET stripped == Strip(completion.text)
        unfenced == Strip(RemoveFence(RemoveFence(stripped, Fence \o "sql"), Fence))
    IN  IF completion.raised THEN ""
        ELSE IF Contains(unfenced, ";") THEN Strip(Split(unfenced, ";")[1])
        ELSE unfenced

\* generate_sql: the completion's text without code fences, cut at the first
\* ';'; "SELECT 1" when the completion call raises.
generate_sql(completion) ==
    LET stripped == Strip(completion.text)
        unfenced == Strip(RemoveFence(RemoveFence(stripped, Fence \o "sql"), Fence))
    IN  IF completion.raised THEN "SELECT 1"
        ELSE IF Contains(unfenced, ";") THEN Strip(Split(unfenced, ";")[1])
        ELSE unfenced

\* The database the model runs the generated SQL against: the customers and
\* portfolio_holdings tables of the schema with one or two rows each.  Every
\* statement the fixture does not know fails with a syntax error, as SQLite
\* reports it; a statement that returns no rows (DELETE, the empty text)
\* leaves cursor.description None, and the loop over it raises.
execute_sql(sql_query) ==
    CASE sql_query = "SELECT id, phone FROM customers" ->
            [success |-> TRUE, column_names |-> <<"id", "phone">>,
             results |-> << <<"1", "555-123-4567">>, <<"2", "5550">> >>, error |-> ""]
      [] sql_query = "SELECT first_name, email FROM customers" ->
            [success |-> TRUE, column_names |-> <<"first_name", "email">>,
             results |-> << <<"John", "john@example.com">> >>, error |-> ""]
      [] sql_query = "SELECT 'COLUMNS: x' AS note, email FROM customers" ->
            [success |-> TRUE, column_names |-> <<"note", "email">>,
             results |-> << <<"COLUMNS: x", "john@example.com">> >>, error |-> ""]
      [] sql_query = "SELECT symbol, shares FROM portfolio_holdings" ->
            [success |-> TRUE, column_names |-> <<"symbol", "shares">>,
             results |-> << <<"TSLA", "10.0">> >>, error |-> ""]
      [] sql_query = "SELECT nope FROM customers" ->
            [success |-> FALSE, column_names |-> <<>>, results |-> <<>>,
             error |-> "no such column: nope"]
      [] sql_query \in {"DELETE FROM customers", ""} ->
            [success |-> FALSE, column_names |-> <<>>, results |-> <<>>,
             error |-> "'NoneType' object is not iterable"]
      [] sql_query = "SELECT 1" ->
            [success |-> TRUE, column_names |-> <<"1">>,
             results |-> << <<"1">> >>, error |-> ""]
      [] OTHER ->
            [success |-> FALSE, column_names |-> <<>>, results |-> <<>>,
             error |-> "near \"" \o Split(sql_query, " ")[1] \o "\": syntax error"]

\* database_query_tool(query): generate, execute, on failure generate and
\* execute once more; first and second are the outcomes of the completion
\* calls of the two generations.
database_query_tool(first, second) ==
    LET sql1 == generate_sql(first)
        run1 == execute_sql(sql1)
        sql2 == generate_sql(second)
        run2 == execute_sql(sql2)
        sql_query == IF run1.success THEN sql1 ELSE sql2
        run == IF run1.success THEN run1 ELSE run2
    IN  IF ~run.success
        THEN "Database query failed: " \o run.error \o "\nSQL attempted: " \o sql_query
        ELSE FormatResult(sql_query, run.column_names, run.results)

(***************************************************************************)
(* The PII step of the coordinator (agent_coordinator.py).                 *)
(***************************************************************************)

\* The rest of the line from position i on: the longest run of characters
\* other than a newline.
RECURSIVE RestOfLine(_, _)
RestOfLine(s, i) ==
    IF i > Len(s) \/ CharAt(s, i) = "\n" THEN ""
    ELSE CharAt(s, i) \o RestOfLine(s, i + 1)

\* The number of white space characters from position i on.
RECURSIVE SpaceRun(_, _)
SpaceRun(s, i) ==
    IF i > Len(s) \/ ~IsSpace(CharAt(s, i)) THEN 0 ELSE 1 + SpaceRun(s, i + 1)

\* \s*(.+) tried at position i with at most k white space characters taken by
\* \s*: the greedy \s* gives characters back until (.+) finds one character.
RECURSIVE GroupAfter(_, _, _)
GroupAfter(s, i, k) ==
    IF RestOfLine(s, i + k) # "" THEN [found |-> TRUE, group |-> RestOfLine(s, i + k)]
    ELSE IF k = 0 THEN [found |-> FALSE, group |-> ""]
    ELSE GroupAfter(s, i, k - 1)

\* re.search(r'COLUMNS:\s*(.+)', result): the leftmost match, from position
\* `from` on.
RECURSIVE SearchColumns(_, _)
SearchColumns(result, from) ==
    LET at == IndexFrom(result, "COLUMNS:", from)
        m == GroupAfter(result, at + 8, SpaceRun(result, at + 8))
    IN  IF at = 0 THEN [found |-> FALSE, group |-> ""]
        ELSE IF m.found THEN m
        ELSE SearchColumns(result, at + 1)

\* The column-name parsing of _check_and_apply_pii_protection: literal_eval,
\* then the two regex extractions.
CoordinatorParseColumns(columns_str) ==
    LET ev == LiteralEval(columns_str)
        single == FindallQuoted(columns_str, "'")
        double == FindallQuoted(columns_str, "\"")
    IN  IF ev.kind # "raise" THEN ev
        ELSE [kind |-> "list", int |-> 0,
              items |-> IF single # <<>> THEN single ELSE double]

\* _detect_pii_fields of the coordinator: the same lexicon and the same test
\* as detect_pii_fields of the tool.
coordinator_detect_pii_fields(field_names) ==
    {f \in Range(field_names) :
        LET field_lower == Strip(Lower(f))
        IN  \/ field_lower \in pii_patterns
            \/ \E pattern \in pii_patterns : Contains(field_lower, pattern)}

\* The first function tool whose lower-cased name contains "pii": its
\* position in function_tools, 0 when there is none.
RECURSIVE FindPiiTool(_, _)
FindPiiTool(funcs, k) ==
    IF k > Len(funcs) THEN 0
    ELSE IF Contains(Lower(funcs[k]), "pii") THEN k
    ELSE FindPiiTool(funcs, k + 1)

\* What _check_and_apply_pii_protection gives back: whether it raised, the
\* text it returned (the message when it raised) and whether it called the
\* PII tool.
Unprotected(result) == [raised |-> FALSE, text |-> result, called |-> FALSE]

\* From the detection on: the PII tool is looked up and called when a column
\* is flagged; when its call raises, the result is returned as it is.
ProtectDetected(result, cols, pii_fields, funcs, pii_raises) ==
    IF pii_fields = {} \/ FindPiiTool(funcs, 1) = 0 THEN Unprotected(result)
    ELSE [raised |-> FALSE, called |-> TRUE,
          text |-> IF pii_raises THEN result
                   ELSE pii_protection_tool(result, PyRepr(cols))]

\* After the parsing of the column names: nothing is done for an empty (or
\* zero) value; a non-zero number reaches _detect_pii_fields, whose loop over
\* it raises.
ProtectColumnsOf(result, parsed, funcs, pii_raises) ==
    IF parsed.kind = "int"
    THEN IF parsed.int = 0 THEN Unprotected(result)
         ELSE [raised |-> TRUE, text |-> NotIterable, called |-> FALSE]
    ELSE IF parsed.items = <<>> THEN Unprotected(result)
    ELSE ProtectDetected(result, parsed.items,
                         coordinator_detect_pii_fields(parsed.items),
                         funcs, pii_raises)

\* After the search of the COLUMNS line.
ProtectMatched(result, m, funcs, pii_raises) ==
    IF ~m.found THEN Unprotected(result)
    ELSE ProtectColumnsOf(result, CoordinatorParseColumns(Strip(m.group)),
                          funcs, pii_raises)

\* _check_and_apply_pii_protection(tool_name, result) over the function tools
\* funcs; pii_raises says whether the call of the PII tool raises.
check_and_apply_pii_protection(tool_name, result, funcs, pii_raises) ==
    IF ~Contains(tool_name, "database_query_tool") THEN Unprotected(result)
    ELSE IF ~Contains(result, "COLUMNS:") THEN Unprotected(result)
    ELSE ProtectMatched(result, SearchColumns(result, 1), funcs, pii_raises)

(***************************************************************************)
(* The tool catalog and the router (agent_coordinator.py, _route_query).   *)
(***************************************************************************)

companies == <<"AAPL", "GOOGL", "TSLA">>

\* The document tools _create_tools builds, one per company, under the names
\* the routing prompt gives them.
CreatedDocumentTools ==
    [k \in DOMAIN companies |-> companies[k] \o "_10k_filing_tool"]

\* The function tools create_function_tools builds, in its order.
CreatedFunctionTools ==
    <<"database_query_tool", "finance_market_search_tool", "pii_protection_tool">>

\* all_tools of _route_query: the document tools, then the function tools.
AllTools(docs, funcs) ==
    [k \in DOMAIN docs |-> [name |-> docs[k], kind |-> "document"]]
    \o [k \in DOMAIN funcs |-> [name |-> funcs[k], kind |-> "function"]]

\* [int(x) for x in re.findall(r'\d+', s)].
RECURSIVE FindallInts(_)
FindallInts(s) ==
    IF s = "" THEN <<>>
    ELSE IF ~IsDigit(CharAt(s, 1)) THEN FindallInts(Tail(s))
    ELSE LET RECURSIVE RunLen(_)
             RunLen(k) == IF k < Len(s) /\ IsDigit(CharAt(s, k + 1))
                          THEN RunLen(k + 1) ELSE k
             n == RunLen(1)
         IN  <<ToInt(SubSeq(s, 1, n))>> \o FindallInts(SubSeq(s, n + 1, Len(s)))

\* [idx for idx in indices if 0 <= idx < count].
RECURSIVE FilterValid(_, _)
FilterValid(indices, count) ==
    IF indices = <<>> THEN <<>>
    ELSE (IF 0 <= indices[1] /\ indices[1] < count THEN <<indices[1]>> ELSE <<>>)
         \o FilterValid(Tail(indices), count)

\* any(kw in query_lower for kw in kws).
AnyIn(query_lower, kws) == \E kw \in kws : Contains(query_lower, kw)

\* Mutation of FallbackSelects: "customer" is not a keyword of the database
\* tool.
FallbackSelects_without_customer(tool_name, query_lower) ==
    LET name == Lower(tool_name)
    IN  IF /\ Contains(name, "database")
           /\ AnyIn(query_lower, {"portfolio", "holding", "database"})
        THEN TRUE
        ELSE IF /\ Contains(name, "market")
                /\ AnyIn(query_lower, {"price", "stock", "market", "current"})
        THEN TRUE
        ELSE IF Contains(name, "10k") \/ Contains(name, "filing")
        THEN /\ AnyIn(query_lower, {"apple", "aapl", "google", "googl", "tesla",
                                    "tsla", "company", "business", "strategy",
                                    "revenue"})
             /\ IF Contains(name, "aapl") /\ AnyIn(query_lower, {"apple", "aapl"})
                THEN TRUE
                ELSE IF /\ Contains(name, "googl")
                        /\ AnyIn(query_lower, {"google", "googl", "alphabet"})
                THEN TRUE
                ELSE Contains(name, "tsla") /\ AnyIn(query_lower, {"tesla", "tsla"})
        ELSE FALSE

\* Whether the keyword heuristics select one tool for a lower-cased query.
FallbackSelects(tool_name, query_lower) ==
    LET name == Lower(tool_name)
    IN  IF /\ Contains(name, "database")
           /\ AnyIn(query_lower, {"customer", "portfolio", "holding", "database"})
        THEN TRUE
        ELSE IF /\ Contains(name, "market")
                /\ AnyIn(query_lower, {"price", "stock", "market", "current"})
        THEN TRUE
        ELSE IF Contains(name, "10k") \/ Contains(name, "filing")
        THEN /\ AnyIn(query_lower, {"apple", "aapl", "google", "googl", "tesla",
                                    "tsla", "company", "business", "strategy",
                                    "revenue"})
             /\ IF Contains(name, "aapl") /\ AnyIn(query_lower, {"apple", "aapl"})
                THEN TRUE
                ELSE IF /\ Contains(name, "googl")
                        /\ AnyIn(query_lower, {"google", "googl", "alphabet"})
                THEN TRUE
                ELSE Contains(name, "tsla") /\ AnyIn(query_lower, {"tesla", "tsla"})
        ELSE FALSE

\* The fallback loop over enumerate(all_tools): the 0-based indices selected.
RECURSIVE LexicalFallback(_, _, _)
LexicalFallback(tools, query, k) ==
    IF k > Len(tools) THEN <<>>
    ELSE (IF FallbackSelects(tools[k].name, Lower(query)) THEN <<k - 1>> ELSE <<>>)
         \o LexicalFallback(tools, query, k + 1)

\* Mutation of SortedSet: the indices in descending order.
RECURSIVE SortedSet_descending(_)
SortedSet_descending(S) ==
    IF S = {} THEN <<>>
    ELSE LET m == CHOOSE a \in S : \A b \in S : a >= b
         IN  <<m>> \o SortedSet_descending(S \ {m})

\* sorted(list(set(indices))).
RECURSIVE SortedSet(_)
SortedSet(S) ==
    IF S = {} THEN <<>>
    ELSE LET m == CHOOSE a \in S : \A b \in S : a <= b
         IN  <<m>> \o SortedSet(S \ {m})

\* Mutation of SelectIndices: the keyword heuristics are consulted for every
\* response and what they select is added to the numbers of the response.
SelectIndices_with_fallback(tools, query, response) ==
    LET valid == FilterValid(FindallInts(Strip(response)), Len(tools))
    IN  SortedSet(Range(valid \o LexicalFallback(tools, query, 1)))

\* The indices _route_query executes for a completion that answered with
\* response: its in-range numbers, or the fallback's choice when it has none.
SelectIndices(tools, query, response) ==
    LET valid == FilterValid(FindallInts(Strip(response)), Len(tools))
    IN  SortedSet(Range(IF valid = <<>> THEN LexicalFallback(tools, query, 1)
                        ELSE valid))

\* Mutation of Dispatch: without the branch that skips the PII tool.
Dispatch_calls_pii(tool) ==
    IF tool.kind = "document" THEN "query_engine" ELSE "call"

\* How the execution loop treats the tool at one index: a document tool is
\* asked through its query engine, a function tool is called, except the PII
\* tool (a name with "pii" and neither "database" nor "market"), which the
\* loop skips.
Dispatch(tool) ==
    LET name == Lower(tool.name)
    IN  IF tool.kind = "document" THEN "query_engine"
        ELSE IF Contains(name, "database") THEN "call"
        ELSE IF Contains(name, "market") THEN "call"
        ELSE IF Contains(name, "pii") THEN "skip"
        ELSE "call"

(***************************************************************************)
(* Bounds and inputs of the model.                                         *)
(***************************************************************************)

\* The number of calls (setup, list_available_tools, query) one behaviour
\* makes on the coordinator.
MaxCalls == 2

\* The questions put to query().
Queries ==
    {"list customers and their emails",
     "what is Tesla's current price",
     "Tesla's business strategy and current stock price",
     "hello"}

\* What the completion service does on the routing prompt.
RoutingCompletions ==
    {Raised} \cup {Answered(t) : t \in {"0", "3", "4", "3,4", "4, 3, 4", "4,5",
                                        "5", "none"}}

\* What the completion service does on a SQL generation prompt.
SqlCompletions ==
    {Raised} \cup {Answered(t) : t \in
        {Fence \o "sql\nSELECT id, phone FROM customers;\n" \o Fence,
         "SELECT symbol, shares FROM portfolio_holdings",
         "SELECT first_name, email FROM customers",
         "SELECT 1; DROP TABLE customers",
         "SELECT 'COLUMNS: x' AS note, email FROM customers",
         "SELEC id FROM customers",
         "SELECT nope FROM customers",
         "DELETE FROM customers",
         ""}}

\* What the completion service does on the synthesis prompt.
SynthesisCompletions == {Raised, Answered(" Combined answer. ")}

\* What a document tool's query engine or the market tool does when invoked.
DocumentOutcomes ==
    {Raise("index unavailable"), Answered("Tesla designs electric vehicles.")}
MarketOutcomes ==
    {Raise("market feed down"),
     Answered("TSLA (TSLA):\n  Current Price: $250.00\n")}

\* The tool lists a caller hands to setup().
SuppliedCatalogs ==
    {[docs |-> <<"TSLA_10k_filing_tool">>,
      funcs |-> <<"database_query_tool", "finance_market_search_tool",
                  "pii_protection_tool">>],
     [docs |-> <<"AAPL_10k_filing_tool", "GOOGL_10k_filing_tool",
                 "TSLA_10k_filing_tool">>,
      funcs |-> <<"customer_directory_tool", "finance_market_search_tool",
                  "pii_protection_tool">>]}

\* What a function tool of the caller's own does when invoked: here a
\* directory tool that answers with tabular data in the COLUMNS: format.
OtherToolOutcomes ==
    {Raise("directory offline"),
     Answered("COLUMNS: ['email']\n\nDatabase Results:\nRow 1:\n  email: john@example.com\n\n")}

\* How a run of _create_tools ends: both managers build their tools, the
\* document manager raises, or the function manager raises after the document
\* tools were stored.
CreateOutcomes == {"ok", "documents_fail", "functions_fail"}

(***************************************************************************)
(* The coordinator as a state machine: one caller at a time.               *)
(***************************************************************************)

VARIABLES
    document_tools,     \* self.document_tools: tool names
    function_tools,     \* self.function_tools: tool names
    tools_initialized,  \* self._tools_initialized
    create_calls,       \* how often _create_tools ran
    setup_done,         \* a call of setup() has stored a whole catalog
    last_call,          \* the method the caller called last
    calls,              \* how many calls the caller made
    pc,                 \* where the current query() call stands
    question,           \* its argument
    all_tools,          \* all_tools of _route_query
    routing,            \* the outcome of the routing completion call
    valid_indices,      \* the sorted indices the loop executes
    pos,                \* the loop's position in valid_indices
    results,            \* the (tool_name, result) pairs collected
    invoked,            \* the tool invocations made: index, raw outcome,
                        \* whether the PII tool's call raised
    pii_calls,          \* how often the PII tool was called
    synthesis,          \* the outcome of the synthesis completion call
    answer,             \* what query() returns
    threads,            \* concurrent query() calls: where each one stands
    sql_query,          \* database tool: the SQL executed
    column_names,       \* database tool: the column names of the result
    rows,               \* database tool: the rows, one value per column
    formatted_result,   \* database tool: the text it returns
    column_text,        \* the column_names argument of a call of the PII tool
    protected,          \* what the PII step made of formatted_result
    pii_pc,             \* where the database result stands on its way
    db_pc,              \* where a call of database_query_tool stands
    attempts,           \* its generations of SQL and their executions
    error,              \* database tool: the error of the last execution
    tool_output,        \* what database_query_tool returns
    mask_field,         \* masking rule: the field name it is applied for
    mask_value,         \* masking rule: the raw value
    masked,             \* the value after each application of the rule
    visited             \* a line of the value after each visit of the loop

catalog == <<document_tools, function_tools>>
locals == <<question, all_tools, routing, valid_indices, pos, results, invoked,
            pii_calls, synthesis, answer>>
coordinator == <<catalog, tools_initialized, create_calls, setup_done, last_call,
                 calls, pc, locals>>
database == <<db_pc, attempts, error, tool_output>>
masking == <<mask_field, mask_value, masked, visited>>
pipeline == <<sql_query, column_names, rows, formatted_result, column_text,
              protected, pii_pc, database, masking>>

vars == <<coordinator, threads, pipeline>>

NoCall == [raised |-> FALSE, text |-> "<no call>"]
NoAnswer == "<no answer>"

UnableMessage ==
    "Unable to process query. No appropriate tools found or error occurred."

\* __init__: empty tool lists, nothing initialised.
InitCoordinator ==
    /\ document_tools = <<>>
    /\ function_tools = <<>>
    /\ tools_initialized = FALSE
    /\ create_calls = 0
    /\ setup_done = FALSE
    /\ last_call = "none"
    /\ calls = 0
    /\ pc = "idle"
    /\ question = ""
    /\ all_tools = <<>>
    /\ routing = NoCall
    /\ valid_indices = <<>>
    /\ pos = 1
    /\ results = <<>>
    /\ invoked = <<>>
    /\ pii_calls = 0
    /\ synthesis = NoCall
    /\ answer = NoAnswer

\* No concurrent call is under way.
NoThreads == <<>>

\* No call of database_query_tool is under way.
NoDatabaseCall ==
    /\ db_pc = "none"
    /\ attempts = <<>>
    /\ error = ""
    /\ tool_output = ""

\* The masking rule is not under study.
NoMasking ==
    /\ mask_field = ""
    /\ mask_value = ""
    /\ masked = <<>>
    /\ visited = <<>>

\* No database result is on its way.
NoPipeline ==
    /\ NoDatabaseCall
    /\ NoMasking
    /\ sql_query = ""
    /\ column_names = <<>>
    /\ rows = <<>>
    /\ formatted_result = ""
    /\ column_text = ""
    /\ protected = Unprotected("")
    /\ pii_pc = "none"

Init == InitCoordinator /\ threads = NoThreads /\ NoPipeline

\* The tool lists after a run of _create_tools that ends as outcome says.
create_tools(outcome, docs, funcs) ==
    [docs |-> IF outcome = "documents_fail" THEN docs ELSE CreatedDocumentTools,
     funcs |-> IF outcome = "ok" THEN CreatedFunctionTools ELSE funcs]

\* setup(document_tools, function_tools) with both lists given.
Setup(supplied) ==
    /\ pc = "idle" /\ calls < MaxCalls
    /\ calls' = calls + 1
    /\ last_call' = "setup"
    /\ document_tools' = supplied.docs
    /\ function_tools' = supplied.funcs
    /\ setup_done' = TRUE
    /\ UNCHANGED <<tools_initialized, create_calls, pc, locals, threads, pipeline>>

\* setup() without tool lists: _create_tools, its error logged and swallowed.
SetupAuto(outcome) ==
    /\ pc = "idle" /\ calls < MaxCalls
    /\ calls' = calls + 1
    /\ create_calls' = create_calls + 1
    /\ document_tools' = create_tools(outcome, document_tools, function_tools).docs
    /\ function_tools' = create_tools(outcome, document_tools, function_tools).funcs
    /\ last_call' = "setup"
    /\ setup_done' = (setup_done \/ outcome = "ok")
    /\ UNCHANGED <<tools_initialized, pc, locals, threads, pipeline>>

\* list_available_tools(): _create_tools while the flag is unset (its error
\* reaches the caller), then the names are read.
ListAvailableTools(outcome) ==
    /\ pc = "idle" /\ calls < MaxCalls
    /\ calls' = calls + 1
    /\ IF tools_initialized
       THEN UNCHANGED <<catalog, create_calls>>
       ELSE /\ create_calls' = create_calls + 1
            /\ document_tools' =
                   create_tools(outcome, document_tools, function_tools).docs
            /\ function_tools' =
                   create_tools(outcome, document_tools, function_tools).funcs
    /\ last_call' = "list_available_tools"
    /\ UNCHANGED <<tools_initialized, setup_done, pc, locals, threads, pipeline>>

\* Mutation of QueryStart: the flag is set only when the lazy setup built
\* the tools, so that a later call tries again.
QueryStart_flag_on_success(q, outcome) ==
    /\ pc = "idle" /\ calls < MaxCalls
    /\ calls' = calls + 1
    /\ LET made == IF tools_initialized
                   THEN [docs |-> document_tools, funcs |-> function_tools]
                   ELSE create_tools(outcome, document_tools, function_tools)
       IN  /\ document_tools' = made.docs
           /\ function_tools' = made.funcs
           /\ all_tools' = AllTools(made.docs, made.funcs)
    /\ create_calls' = IF tools_initialized THEN create_calls ELSE create_calls + 1
    /\ tools_initialized' = (tools_initialized \/ outcome = "ok")
    /\ question' = q
    /\ pc' = "route"
    /\ last_call' = "query"
    /\ UNCHANGED <<setup_done, routing, valid_indices, pos, results, invoked,
                   pii_calls, synthesis, answer, threads, pipeline>>

\* query(question), up to the routing prompt: the lazy setup, then all_tools
\* is built from the two tool lists.
QueryStart(q, outcome) ==
    /\ pc = "idle" /\ calls < MaxCalls
    /\ calls' = calls + 1
    /\ LET made == IF tools_initialized
                   THEN [docs |-> document_tools, funcs |-> function_tools]
                   ELSE create_tools(outcome, document_tools, function_tools)
       IN  /\ document_tools' = made.docs
           /\ function_tools' = made.funcs
           /\ all_tools' = AllTools(made.docs, made.funcs)
    /\ create_calls' = IF tools_initialized THEN create_calls ELSE create_calls + 1
    /\ tools_initialized' = TRUE
    /\ question' = q
    /\ pc' = "route"
    /\ last_call' = "query"
    /\ UNCHANGED <<setup_done, routing, valid_indices, pos, results, invoked,
                   pii_calls, synthesis, answer, threads, pipeline>>

\* The routing completion call and the selection of the indices.  When the
\* call raises, the handler around the whole of _route_query returns [].
Route(completion) ==
    /\ pc = "route"
    /\ routing' = completion
    /\ valid_indices' = IF completion.raised THEN <<>>
                        ELSE SelectIndices(all_tools, question, completion.text)
    /\ pos' = 1
    /\ pc' = "exec"
    /\ UNCHANGED <<catalog, tools_initialized, create_calls, setup_done,
                   last_call, calls, question, all_tools, results, invoked,
                   pii_calls, synthesis, answer, threads, pipeline>>

\* The raw outcomes a tool can have when the loop invokes it.
RawOutcomes(tool) ==
    IF tool.kind = "document" THEN DocumentOutcomes
    ELSE IF tool.name = "database_query_tool"
    THEN {Answered(database_query_tool(first, second)) :
              first \in SqlCompletions, second \in SqlCompletions}
    ELSE IF tool.name = "pii_protection_tool"
    THEN {Raise("pii_protection_tool() missing 1 required positional argument: 'column_names'")}
    ELSE IF tool.name = "finance_market_search_tool" THEN MarketOutcomes
    ELSE OtherToolOutcomes

\* The tool the loop stands at.
CurrentTool == all_tools[valid_indices[pos] + 1]

\* The PII step of one iteration; it is not reached when the invocation
\* raised.
PiiStep(tool, raw, pii_raises) ==
    IF raw.raised THEN [raised |-> TRUE, text |-> raw.text, called |-> FALSE]
    ELSE check_and_apply_pii_protection(tool.name, raw.text, function_tools,
                                        pii_raises)

\* Mutation of Payload: the message of a failure recorded without its
\* "Error: " prefix.
Payload_bare(step) == step.text

\* The text the iteration records for the tool: the output after the PII
\* step, or "Error: <message>" when the invocation or the PII step raised.
Payload(step) == IF step.raised THEN "Error: " \o step.text ELSE step.text

\* The records one iteration leaves, for the outcome raw of the invocation
\* and the outcome step of the PII step.
Record(raw, step, pii_raises) ==
    /\ pii_raises => step.called
    /\ invoked' = Append(invoked,
                         [idx |-> valid_indices[pos], arg |-> question, raw |-> raw,
                          pii_raises |-> pii_raises])
    /\ results' = Append(results,
                         [name |-> CurrentTool.name, result |-> Payload(step)])
    /\ pii_calls' = IF step.called THEN pii_calls + 1 ELSE pii_calls

\* One iteration of `for idx in valid_indices` that invokes the tool: raw is
\* what the tool does, pii_raises whether a call of the PII tool raises.
Invoke(raw, pii_raises) ==
    Record(raw, PiiStep(CurrentTool, raw, pii_raises), pii_raises)

ExecTool ==
    /\ pc = "exec" /\ pos <= Len(valid_indices)
    /\ Dispatch(CurrentTool) # "skip"
    /\ \E raw \in RawOutcomes(CurrentTool), pii_raises \in BOOLEAN :
           Invoke(raw, pii_raises)
    /\ pos' = pos + 1
    /\ UNCHANGED <<catalog, tools_initialized, create_calls, setup_done,
                   last_call, calls, pc, question, all_tools, routing,
                   valid_indices, synthesis, answer, threads, pipeline>>

\* One iteration that stands at the PII tool: `continue`.
SkipTool ==
    /\ pc = "exec" /\ pos <= Len(valid_indices)
    /\ Dispatch(CurrentTool) = "skip"
    /\ pos' = pos + 1
    /\ UNCHANGED <<catalog, tools_initialized, create_calls, setup_done,
                   last_call, calls, pc, question, all_tools, routing,
                   valid_indices, synthesis, answer, results, invoked, pii_calls,
                   threads, pipeline>>

\* The fallback of query() when the synthesis call raises.
RECURSIVE FallbackBlocks(_)
FallbackBlocks(tool_results) ==
    IF tool_results = <<>> THEN ""
    ELSE "From " \o tool_results[1].name \o ":\n" \o tool_results[1].result \o "\n\n"
         \o FallbackBlocks(Tail(tool_results))

\* Mutation of fallback_answer: the blocks without the query before them.
fallback_answer_without_query(q, tool_results) == FallbackBlocks(tool_results)

\* The rendering query() falls back to when the synthesis call raises.
fallback_answer(q, tool_results) ==
    "Query: " \o q \o "\n\n" \o FallbackBlocks(tool_results)

\* Mutation of final_answer: no fixed message for an empty result list.
final_answer_empty_rendered(q, tool_results, completion) ==
    IF Len(tool_results) = 1 THEN tool_results[1].result
    ELSE IF completion.raised THEN fallback_answer(q, tool_results)
    ELSE Strip(completion.text)

\* Mutation of final_answer: no handler around the synthesis call, so that
\* its failure leaves query() without an answer.
final_answer_synthesis_unhandled(q, tool_results, completion) ==
    IF tool_results = <<>> THEN UnableMessage
    ELSE IF Len(tool_results) = 1 THEN tool_results[1].result
    ELSE IF completion.raised THEN NoAnswer
    ELSE Strip(completion.text)

\* Mutation of final_answer: a single result is synthesised like several.
final_answer_always_synthesised(q, tool_results, completion) ==
    IF tool_results = <<>> THEN UnableMessage
    ELSE IF completion.raised THEN fallback_answer(q, tool_results)
    ELSE Strip(completion.text)

\* What query() returns for the collected results; completion is the outcome
\* of the synthesis call, made for two or more results only.
final_answer(q, tool_results, completion) ==
    IF tool_results = <<>> THEN UnableMessage
    ELSE IF Len(tool_results) = 1 THEN tool_results[1].result
    ELSE IF completion.raised THEN fallback_answer(q, tool_results)
    ELSE Strip(completion.text)

\* Mutation of synthesis_call: the completion service is called for any
\* number of results.
synthesis_call_always(tool_results, completion) == completion

\* The synthesis completion call query() makes: none for no result or one,
\* one call for two or more.
synthesis_call(tool_results, completion) ==
    IF Len(tool_results) >= 2 THEN completion ELSE NoCall

\* The end of query(): the loop is over, the answer is made.
Finish ==
    /\ pc = "exec" /\ pos > Len(valid_indices)
    /\ \E completion \in SynthesisCompletions :
           /\ synthesis' = synthesis_call(results, completion)
           /\ answer' = final_answer(question, results, completion)
    /\ pc' = "returned"
    /\ UNCHANGED <<catalog, tools_initialized, create_calls, setup_done,
                   last_call, calls, question, all_tools, routing, valid_indices,
                   pos, results, invoked, pii_calls, threads, pipeline>>

\* query() has returned: its locals are gone.
Return ==
    /\ pc = "returned"
    /\ pc' = "idle"
    /\ question' = ""
    /\ all_tools' = <<>>
    /\ routing' = NoCall
    /\ valid_indices' = <<>>
    /\ pos' = 1
    /\ results' = <<>>
    /\ invoked' = <<>>
    /\ pii_calls' = 0
    /\ synthesis' = NoCall
    /\ answer' = NoAnswer
    /\ UNCHANGED <<catalog, tools_initialized, create_calls, setup_done,
                   last_call, calls, threads, pipeline>>

Next ==
    \/ \E supplied \in SuppliedCatalogs : Setup(supplied)
    \/ \E outcome \in CreateOutcomes : SetupAuto(outcome)
    \/ \E outcome \in CreateOutcomes : ListAvailableTools(outcome)
    \/ \E q \in Queries, outcome \in CreateOutcomes : QueryStart(q, outcome)
    \/ \E completion \in RoutingCompletions : Route(completion)
    \/ ExecTool
    \/ SkipTool
    \/ Finish
    \/ Return

Spec == Init /\ [][Next]_vars

PiiToolName == "pii_protection_tool"
DatabaseToolName == "database_query_tool"

(***************************************************************************)
(* Concurrent first calls of query() on one coordinator: the lazy setup of *)
(* lines 446-449 step by step, one thread at a time.                       *)
(***************************************************************************)

NumThreads == 3

Threads == 1 .. NumThreads

\* Every thread is about to enter query() on a coordinator just constructed.
InitConc ==
    /\ InitCoordinator
    /\ threads = [t \in Threads |-> [pc |-> "check", seen |-> 0]]
    /\ NoPipeline

\* The thread moves on to the step `to`.
Goto(t, to) == threads' = [threads EXCEPT ![t].pc = to]

\* `if not self._tools_initialized`: the flag is read.
CheckFlag(t) ==
    /\ threads[t].pc = "check"
    /\ Goto(t, IF tools_initialized THEN "route" ELSE "create_documents")
    /\ UNCHANGED <<coordinator, pipeline>>

\* setup() -> _create_tools: the document tools are built and stored; when
\* that raises, setup() swallows the error and returns.
CreateDocuments(t, ok) ==
    /\ threads[t].pc = "create_documents"
    /\ create_calls' = create_calls + 1
    /\ document_tools' = IF ok THEN CreatedDocumentTools ELSE document_tools
    /\ Goto(t, IF ok THEN "create_functions" ELSE "set_flag")
    /\ UNCHANGED <<function_tools, tools_initialized, setup_done, last_call,
                   calls, pc, locals, pipeline>>

\* _create_tools, second half: the function tools are built and stored.
CreateFunctions(t, ok) ==
    /\ threads[t].pc = "create_functions"
    /\ function_tools' = IF ok THEN CreatedFunctionTools ELSE function_tools
    /\ Goto(t, "set_flag")
    /\ UNCHANGED <<document_tools, tools_initialized, create_calls, setup_done,
                   last_call, calls, pc, locals, pipeline>>

\* `self._tools_initialized = True`.
SetFlag(t) ==
    /\ threads[t].pc = "set_flag"
    /\ tools_initialized' = TRUE
    /\ Goto(t, "route")
    /\ UNCHANGED <<catalog, create_calls, setup_done, last_call, calls, pc,
                   locals, pipeline>>

\* _route_query reads the two tool lists into all_tools; the thread keeps how
\* many runs of _create_tools had begun by then.
ReadCatalog(t) ==
    /\ threads[t].pc = "route"
    /\ threads' = [threads EXCEPT ![t] = [pc |-> "routing", seen |-> create_calls]]
    /\ UNCHANGED <<coordinator, pipeline>>

\* The rest of query(): the thread routes over the tools it read and returns.
FinishQuery(t) ==
    /\ threads[t].pc = "routing"
    /\ Goto(t, "done")
    /\ UNCHANGED <<coordinator, pipeline>>

NextConc ==
    \/ \E t \in Threads : CheckFlag(t)
    \/ \E t \in Threads, ok \in BOOLEAN : CreateDocuments(t, ok)
    \/ \E t \in Threads, ok \in BOOLEAN : CreateFunctions(t, ok)
    \/ \E t \in Threads : SetFlag(t)
    \/ \E t \in Threads : ReadCatalog(t)
    \/ \E t \in Threads : FinishQuery(t)

SpecConc == InitConc /\ [][NextConc]_vars

(***************************************************************************)
(* A database result on its way through the formatting of                  *)
(* database_query_tool and the PII protection.                             *)
(***************************************************************************)

MaxRows == 2

\* The SQL texts executed: plain, with a filter on a stored value, and with
\* the text "COLUMNS:" in a literal or in a trailing comment.
PiiSqlTexts ==
    {"SELECT * FROM customers",
     "SELECT * FROM customers WHERE email = 'john@example.com'",
     "SELECT 'COLUMNS: x' AS note, * FROM customers",
     "SELECT * FROM customers -- COLUMNS: 5"}

\* The column lists of the results.
ColumnLists ==
    {<<"id", "phone">>, <<"Name", "email">>, <<"symbol", "shares">>,
     <<"home_address", "ssn">>}

\* The values a column holds, as str() renders them.
ValuesOf(col) ==
    CASE col = "id" -> {"1"}
      [] col = "phone" -> {"555-123-4567", "5550"}
      [] col = "Name" -> {"Na", "John"}
      [] col = "email" -> {"john@example.com", ""}
      [] col = "symbol" -> {"TSLA"}
      [] col = "shares" -> {"10.0", "5"}
      [] col = "home_address" -> {"12 Elm Street\nApt 4", "Elm"}
      [] col = "ssn" -> {"123-45-6789"}

\* The rows a result with these columns can hold.
RowsOf(cols) ==
    {<<a, b>> : a \in ValuesOf(cols[1]), b \in ValuesOf(cols[2])}

\* The sequences of at most n elements of S.
RECURSIVE SeqsUpTo(_, _)
SeqsUpTo(S, n) ==
    IF n = 0 THEN {<<>>}
    ELSE LET shorter == SeqsUpTo(S, n - 1)
         IN  shorter \cup {Append(q, x) : q \in {r \in shorter : Len(r) = n - 1}, x \in S}

\* execute_sql has returned the rows of a statement.
InitPII ==
    /\ InitCoordinator
    /\ threads = NoThreads
    /\ sql_query \in PiiSqlTexts
    /\ column_names \in ColumnLists
    /\ rows \in SeqsUpTo(RowsOf(column_names), MaxRows)
    /\ formatted_result = ""
    /\ column_text = ""
    /\ protected = Unprotected("")
    /\ pii_pc = "executed"
    /\ NoDatabaseCall
    /\ NoMasking

\* database_query_tool formats the result.
Format ==
    /\ pii_pc = "executed"
    /\ formatted_result' = FormatResult(sql_query, column_names, rows)
    /\ pii_pc' = "formatted"
    /\ UNCHANGED <<coordinator, threads, masking,
                   sql_query, column_names, rows,
                   column_text, protected,
                   database>>

\* The coordinator's PII step on the formatted result, over the function
\* tools of the repository; the call of the PII tool returns.
Protect ==
    /\ pii_pc = "formatted"
    /\ protected' = check_and_apply_pii_protection(DatabaseToolName, formatted_result,
                                                   CreatedFunctionTools, FALSE)
    /\ pii_pc' = "protected"
    /\ UNCHANGED <<coordinator, threads, masking,
                   sql_query, column_names, rows,
                   formatted_result, column_text,
                   database>>

\* The texts a caller of the PII tool passes as column_names: the list as
\* Python prints it, the names separated by commas, and a number.
ColumnTexts(cols) == {PyRepr(cols), Join(cols, ", "), ToString(Len(cols))}

\* A call of pii_protection_tool on the formatted result.
CallPiiTool(text) ==
    /\ pii_pc = "formatted"
    /\ column_text' = text
    /\ protected' = [raised |-> FALSE, called |-> TRUE,
                     text |-> pii_protection_tool(formatted_result, text)]
    /\ pii_pc' = "tool_called"
    /\ UNCHANGED <<coordinator, threads, masking,
                   sql_query, column_names, rows,
                   formatted_result,
                   database>>

NextPII ==
    \/ Format
    \/ Protect
    \/ \E text \in ColumnTexts(column_names) : CallPiiTool(text)

SpecPII == InitPII /\ [][NextPII]_vars

(***************************************************************************)
(* One call of database_query_tool, step by step: generate, execute, on    *)
(* failure generate and execute once more, then format or report.          *)
(***************************************************************************)

\* Mutation of next_stage: a failed first execution is reported at once.
next_stage_without_retry(stage, success) ==
    IF success THEN "format" ELSE "failed"

\* Where the tool goes after an execution: to the formatting when it
\* succeeded, to the one retry when the first execution failed, to the
\* failure report when the retry failed.
next_stage(stage, success) ==
    IF success THEN "format"
    ELSE IF stage = "execute" THEN "retry_generate"
    ELSE "failed"

\* database_query_tool(query) has been called.
InitDB ==
    /\ InitCoordinator
    /\ NoMasking
    /\ threads = NoThreads
    /\ sql_query = ""
    /\ column_names = <<>>
    /\ rows = <<>>
    /\ formatted_result = ""
    /\ column_text = ""
    /\ protected = Unprotected("")
    /\ pii_pc = "none"
    /\ db_pc = "generate"
    /\ attempts = <<>>
    /\ error = ""
    /\ tool_output = ""

\* generate_sql(query) and, after a failure, generate_sql(query,
\* error_context=error): the prompt holds the error when there is one.
GenerateSql(completion) ==
    /\ db_pc \in {"generate", "retry_generate"}
    /\ sql_query' = generate_sql(completion)
    /\ attempts' = Append(attempts,
                          [completion |-> completion,
                           error_context |-> IF db_pc = "generate" THEN "" ELSE error,
                           sql_query |-> generate_sql(completion),
                           executed |-> FALSE, success |-> FALSE, error |-> ""])
    /\ db_pc' = IF db_pc = "generate" THEN "execute" ELSE "retry_execute"
    /\ UNCHANGED <<coordinator, threads, masking,
                   column_names, rows, formatted_result,
                   column_text, protected, pii_pc, error, tool_output>>

\* success, results, column_names, error = execute_sql(sql_query).
ExecuteSql ==
    /\ db_pc \in {"execute", "retry_execute"}
    /\ column_names' = execute_sql(sql_query).column_names
    /\ rows' = execute_sql(sql_query).results
    /\ error' = execute_sql(sql_query).error
    /\ attempts' = [attempts EXCEPT ![Len(attempts)] =
                       [@ EXCEPT !.executed = TRUE,
                                 !.success = execute_sql(sql_query).success,
                                 !.error = execute_sql(sql_query).error]]
    /\ db_pc' = next_stage(db_pc, execute_sql(sql_query).success)
    /\ UNCHANGED <<coordinator, threads, masking,
                   sql_query, formatted_result,
                   column_text, protected, pii_pc, tool_output>>

\* The text returned when the retry failed too.
failure_report(message, sql) ==
    "Database query failed: " \o message \o "\nSQL attempted: " \o sql

\* `if not success: return f"Database query failed: ..."`.
ReturnFailure ==
    /\ db_pc = "failed"
    /\ tool_output' = failure_report(error, sql_query)
    /\ db_pc' = "done"
    /\ UNCHANGED <<coordinator, threads, masking,
                   sql_query, column_names, rows,
                   formatted_result, column_text, protected, pii_pc, attempts,
                   error>>

\* The result is formatted and returned.
ReturnFormatted ==
    /\ db_pc = "format"
    /\ formatted_result' = FormatResult(sql_query, column_names, rows)
    /\ tool_output' = FormatResult(sql_query, column_names, rows)
    /\ db_pc' = "done"
    /\ UNCHANGED <<coordinator, threads, masking,
                   sql_query, column_names, rows,
                   column_text, protected, pii_pc, attempts, error>>

NextDB ==
    \/ \E completion \in SqlCompletions : GenerateSql(completion)
    \/ ExecuteSql
    \/ ReturnFailure
    \/ ReturnFormatted

SpecDB == InitDB /\ [][NextDB]_vars

(***************************************************************************)
(* The masking rule on its own (function_tools.py, mask_field_value): the  *)
(* rule applied to a value and again to what it gave, and a line of the    *)
(* result visited by the masking loop more than once.                      *)
(***************************************************************************)

\* How often the rule is applied to a value, and the loop visits a line.
MaxPasses == 2

\* The raw values, as the loop hands them over: stripped text after the
\* first colon of a line.
MaskValues ==
    {"", "John", "Na", "abc", "@", "john@example.com", "a@b@c", "12",
     "5550", "555-123-4567", "123-45-6789", "Elm", "abcdef", "12 Elm Street"}

InitMask ==
    /\ InitCoordinator
    /\ threads = NoThreads
    /\ NoDatabaseCall
    /\ sql_query = ""
    /\ column_names = <<>>
    /\ rows = <<>>
    /\ formatted_result = ""
    /\ column_text = ""
    /\ protected = Unprotected("")
    /\ pii_pc = "none"
    /\ mask_field \in pii_patterns
    /\ mask_value \in MaskValues
    /\ masked = <<>>
    /\ visited = <<>>

\* The last entry of a sequence of texts, `first` when it has none.
LastOr(texts, first) == IF texts = <<>> THEN first ELSE texts[Len(texts)]

\* masked_value = mask_field_value(field_name, value), on the raw value and
\* then on what the rule returned.
ApplyMask ==
    /\ Len(masked) < MaxPasses
    /\ masked' = Append(masked, mask_field_value(mask_field, LastOr(masked, mask_value)))
    /\ UNCHANGED <<coordinator, threads, sql_query, column_names, rows,
                   formatted_result, column_text, protected, pii_pc, database,
                   mask_field, mask_value, visited>>

\* The line database_query_tool prints for one column of one row.
RowLine(col, value) == "  " \o col \o ": " \o value

\* One visit of `for col in cols` to the line of the field, for a column
\* name that the line holds.
VisitLine ==
    /\ Len(visited) < MaxPasses
    /\ visited' = Append(visited,
                         MaskCols([line |-> LastOr(visited, RowLine(mask_field, mask_value)),
                                   notice |-> <<>>],
                                  <<mask_field>>, 1, {mask_field}).line)
    /\ UNCHANGED <<coordinator, threads, sql_query, column_names, rows,
                   formatted_result, column_text, protected, pii_pc, database,
                   mask_field, mask_value, masked>>

NextMask ==
    \/ ApplyMask
    \/ VisitLine

SpecMask == InitMask /\ [][NextMask]_vars

(***************************************************************************)
(* Properties.                                                             *)
(***************************************************************************)

\* The tool at a 0-based index of all_tools.
ToolAt(idx) == all_tools[idx + 1]

\* C1, as claimed: when the routing completion call raises, the tools the
\* keyword fallback selects for the question are the ones executed, and the
\* caller does not get the "unable to process" message in place of their
\* answer.
C1_RoutingFailureFallsBack ==
    (pc = "returned" /\ routing.raised) =>
        /\ valid_indices = SortedSet(Range(LexicalFallback(all_tools, question, 1)))
        /\ (valid_indices # <<>> => answer # UnableMessage)

\* The positions of the columns the PII lexicon flags.
FlaggedColumns ==
    {k \in DOMAIN column_names : column_names[k] \in detect_pii_fields(column_names)}

\* C2, as claimed: after the PII step, the text returned for a database
\* result contains no raw value of a flagged column, for every row.
C2_NoRawPiiValue ==
    (pii_pc = "protected" /\ ~protected.raised) =>
        \A i \in DOMAIN rows : \A k \in FlaggedColumns :
            rows[i][k] # "" => ~Contains(protected.text, rows[i][k])

C4_CatalogCreatedOnce ==
    /\ create_calls <= 1
    /\ \A t \in DOMAIN threads :
           threads[t].pc = "done" => threads[t].seen = create_calls

\* C5, as claimed: once a call of setup() has stored a catalog, no call of
\* query() or list_available_tools() changes document_tools or function_tools.
C5_CatalogFrozenAfterSetup ==
    [][(/\ setup_done
        /\ calls' = calls + 1
        /\ last_call' \in {"query", "list_available_tools"})
          => catalog' = catalog]_vars

\* The parsing of the column names failed: it gave no list, or no name.
ParseFailed(parsed) == parsed.kind # "list" \/ parsed.items = <<>>

\* The PII step returned the whole result with the error notice after it.
Annotated(step) ==
    /\ ~step.raised
    /\ Len(step.text) > Len(formatted_result) + Len(ErrorNotice)
    /\ SubSeq(step.text, 1, Len(formatted_result) + Len(ErrorNotice))
           = formatted_result \o ErrorNotice

\* C6, as claimed: when the column names cannot be parsed, in the
\* coordinator's PII step or in the PII tool, the database result is returned
\* whole with the error notice appended.
C6_ParseFailureAnnotated ==
    /\ (/\ pii_pc = "protected"
        /\ ParseFailed(CoordinatorParseColumns(
               Strip(SearchColumns(formatted_result, 1).group))))
           => Annotated(protected)
    /\ (pii_pc = "tool_called" /\ ParseFailed(ToolParseColumns(column_text)))
           => Annotated(protected)

\* The text before the first ':' of a line, the whole line without one.
LabelOf(line) == Split1(line, ":")[1]

\* The text without the disclosure the PII tool appends.
Undisclosed(text) ==
    IF Contains(text, AppliedNotice)
    THEN SubSeq(text, 1, IndexFrom(text, AppliedNotice, 1) - 1)
    ELSE text

\* C7, as claimed: the masked text has the lines of the result in the same
\* order, every line keeps its label, and every line whose label is not a
\* flagged column is unchanged.
C7_OnlyFlaggedValuesChange ==
    (pii_pc = "protected" /\ ~protected.raised) =>
        LET before == Split(formatted_result, "\n")
            after == Split(Undisclosed(protected.text), "\n")
        IN  /\ Len(after) = Len(before)
            /\ \A i \in DOMAIN before :
                   i \in DOMAIN after =>
                       /\ LabelOf(after[i]) = LabelOf(before[i])
                       /\ (Strip(LabelOf(before[i])) \notin detect_pii_fields(column_names)
                              => after[i] = before[i])

\* C8, as claimed: when the invocation of a selected tool raises, "Error:
\* <message>" is recorded for that tool at its position, every selected tool
\* after it is invoked, and when it is the only result the error text is the
\* answer.
C8_FailureNeverAborts ==
    pc = "returned" =>
        \A k \in DOMAIN invoked :
            invoked[k].raw.raised =>
                /\ results[k] = [name |-> ToolAt(invoked[k].idx).name,
                                 result |-> "Error: " \o invoked[k].raw.text]
                /\ \A j \in DOMAIN valid_indices :
                       valid_indices[j] > invoked[k].idx
                           => \E m \in DOMAIN invoked :
                                  invoked[m].idx = valid_indices[j]
                /\ (Len(results) = 1 => answer = "Error: " \o invoked[k].raw.text)

\* C8, amended: when the invocation of a selected tool raises, "Error:
\* <message>" is recorded for that tool at its position, every selected tool
\* after it other than the PII tool is invoked, and when it is the only result
\* the error text is the answer.
C8_FailureIsolated ==
    pc = "returned" =>
        \A k \in DOMAIN invoked :
            invoked[k].raw.raised =>
                /\ results[k] = [name |-> ToolAt(invoked[k].idx).name,
                                 result |-> "Error: " \o invoked[k].raw.text]
                /\ \A j \in DOMAIN valid_indices :
                       (/\ valid_indices[j] > invoked[k].idx
                        /\ ToolAt(valid_indices[j]).name # PiiToolName)
                           => \E m \in DOMAIN invoked :
                                  invoked[m].idx = valid_indices[j]
                /\ (Len(results) = 1 => answer = "Error: " \o invoked[k].raw.text)

\* A query whose first tool raised and whose second tool was invoked and
\* returned.
C8_Witness ==
    /\ pc = "returned" /\ Len(invoked) = 2
    /\ invoked[1].raw.raised /\ ~invoked[2].raw.raised
    /\ results[1].result = "Error: " \o invoked[1].raw.text

\* C9, as claimed: the results hold one outcome for every selected index, in
\* ascending index order.
C9_OneOutcomePerIndex ==
    pc = "returned" =>
        /\ Len(results) = Len(valid_indices)
        /\ \A i \in DOMAIN results :
               /\ i \in DOMAIN valid_indices
               /\ results[i].name = ToolAt(valid_indices[i]).name

NotPiiIndex(idx) == ToolAt(idx).name # PiiToolName

\* C9, amended: the selected indices are in range and strictly ascending, and
\* the results hold one outcome for every selected index other than the PII
\* tool's, in that order.
C9_OneOutcomePerInvokedIndex ==
    pc = "returned" =>
        LET executed == SelectSeq(valid_indices, NotPiiIndex)
        IN  /\ \A i \in DOMAIN valid_indices :
                   /\ 0 <= valid_indices[i] /\ valid_indices[i] < Len(all_tools)
                   /\ \A j \in DOMAIN valid_indices :
                          i < j => valid_indices[i] < valid_indices[j]
            /\ Len(results) = Len(executed)
            /\ Len(invoked) = Len(executed)
            /\ \A i \in DOMAIN executed :
                   /\ invoked[i].idx = executed[i]
                   /\ results[i].name = ToolAt(executed[i]).name

\* A query whose completion named the indices 4, 3, 4 has returned with the
\* outcomes of tool 3 and tool 4, in that order.
C9_Witness ==
    /\ pc = "returned" /\ routing = Answered("4, 3, 4")
    /\ Len(results) = 2
    /\ invoked[1].idx = 3 /\ invoked[2].idx = 4

\* C10: the loop never invokes the PII tool, the keyword fallback never
\* selects it, and the PII tool is called at most once per database tool
\* output, from the PII step.
C10_PiiToolNeverRouted ==
    /\ \A k \in DOMAIN invoked : ToolAt(invoked[k].idx).name # PiiToolName
    /\ (/\ pc \in {"exec", "returned"} /\ ~routing.raised
        /\ FilterValid(FindallInts(Strip(routing.text)), Len(all_tools)) = <<>>)
           => \A j \in DOMAIN valid_indices : ToolAt(valid_indices[j]).name # PiiToolName
    /\ pii_calls <= Cardinality({k \in DOMAIN invoked :
                                    /\ ToolAt(invoked[k].idx).name = DatabaseToolName
                                    /\ ~invoked[k].raw.raised})

\* A query whose completion named the PII tool's index alone has returned
\* without any invocation.
C10_Witness ==
    /\ pc = "returned" /\ routing = Answered("5")
    /\ valid_indices = <<5>> /\ ToolAt(5).name = PiiToolName
    /\ invoked = <<>> /\ pii_calls = 0

\* C11, as claimed: the output of a function tool whose invocation returned
\* is recorded as it is when it holds no "COLUMNS:", and as the PII step
\* makes it for a database result when it holds one, whatever the tool's name.
C11_SentinelSoleSignal ==
    \A k \in DOMAIN invoked :
        (/\ k \in DOMAIN results
         /\ ToolAt(invoked[k].idx).kind = "function"
         /\ ~invoked[k].raw.raised)
            => IF Contains(invoked[k].raw.text, "COLUMNS:")
               THEN results[k].result =
                        Payload(check_and_apply_pii_protection(
                            DatabaseToolName, invoked[k].raw.text,
                            function_tools, invoked[k].pii_raises))
               ELSE results[k].result = invoked[k].raw.text

\* C12: with exactly one outcome query() returns its payload as it is and
\* makes no synthesis call; the synthesis call is made, once, exactly when
\* there are two or more outcomes.
C12_SingleOutcomePassThrough ==
    pc = "returned" =>
        /\ Len(results) = 1 => (answer = results[1].result /\ synthesis = NoCall)
        /\ synthesis # NoCall <=> Len(results) >= 2
        /\ synthesis # NoCall => synthesis \in SynthesisCompletions

\* A query with two outcomes has returned the synthesised text of the one
\* synthesis call.
C12_Witness ==
    /\ pc = "returned" /\ Len(results) = 2
    /\ synthesis = Answered(" Combined answer. ")
    /\ answer = "Combined answer."

\* C13: with no outcome query() returns the fixed "Unable to process query"
\* message and makes no synthesis call.
C13_NoOutcomeFixedMessage ==
    (pc = "returned" /\ results = <<>>) =>
        /\ answer = "Unable to process query. No appropriate tools found or error occurred."
        /\ synthesis = NoCall

\* A query for which the completion named no index and the fallback found no
\* tool has returned the fixed message.
C13_Witness ==
    /\ pc = "returned" /\ question = "hello" /\ routing = Answered("none")
    /\ valid_indices = <<>> /\ results = <<>>
    /\ answer = UnableMessage

\* C14: when the synthesis call raises with two or more outcomes, query()
\* returns "Query: <question>" and an empty line, then one block
\* "From <name>:\n<payload>\n\n" per outcome, in outcome order.
C14_SynthesisFailureRendering ==
    (pc = "returned" /\ Len(results) >= 2 /\ synthesis.raised) =>
        LET Block(k) == "From " \o results[k].name \o ":\n"
                        \o results[k].result \o "\n\n"
            Rendering[k \in 0 .. Len(results)] ==
                IF k = 0 THEN "Query: " \o question \o "\n\n"
                ELSE Rendering[k - 1] \o Block(k)
        IN  answer = Rendering[Len(results)]

\* A query with two outcomes, the first of them a failure, has returned the
\* rendering after the synthesis call raised.
C14_Witness ==
    /\ pc = "returned" /\ Len(results) = 2 /\ synthesis = Raised
    /\ invoked[1].raw.raised /\ ~invoked[2].raw.raised
    /\ Contains(answer, "Error: ")

\* C15: SQL is generated and executed at most twice per call of the database
\* tool; the second generation follows a failed first execution and is given
\* its error as context; a failed first execution is always retried; and when
\* the retry fails too the tool returns "Database query failed: <error>" with
\* the SQL attempted.
C15_ExactlyOneRetry ==
    /\ Len(attempts) <= 2
    /\ Len(attempts) >= 1 => attempts[1].error_context = ""
    /\ Len(attempts) = 2 =>
           /\ attempts[1].executed /\ ~attempts[1].success
           /\ attempts[1].error # ""
           /\ attempts[2].error_context = attempts[1].error
    /\ db_pc = "done" =>
           /\ Len(attempts) >= 1
           /\ \A k \in DOMAIN attempts : attempts[k].executed
           /\ ~attempts[1].success => Len(attempts) = 2
           /\ ~attempts[Len(attempts)].success =>
                  tool_output = "Database query failed: "
                                \o attempts[2].error
                                \o "\nSQL attempted: " \o attempts[2].sql_query

\* The tool has returned the failure report after a syntax error and, on the
\* retry, an unknown column.
C15_Witness ==
    /\ db_pc = "done" /\ Len(attempts) = 2
    /\ attempts[1].error = "near \"SELEC\": syntax error"
    /\ attempts[2].error_context = "near \"SELEC\": syntax error"
    /\ attempts[2].error = "no such column: nope"
    /\ tool_output = "Database query failed: no such column: nope\nSQL attempted: SELECT nope FROM customers"

\* C16: when the first execution fails and the retry succeeds, the tool's
\* result reports the SQL, the columns and the rows of the second execution,
\* and holds neither the first error nor a failure report.
C16_ResultOfSecondExecution ==
    (db_pc = "done" /\ Len(attempts) = 2 /\ attempts[2].success) =>
        LET second == execute_sql(attempts[2].sql_query)
            head == "SQL Query: " \o attempts[2].sql_query \o "\n\n"
                    \o "COLUMNS: " \o PyRepr(second.column_names) \o "\n\n"
                    \o "Database Results:\n"
        IN  /\ Len(tool_output) >= Len(head)
            /\ SubSeq(tool_output, 1, Len(head)) = head
            /\ \A i \in DOMAIN second.results :
                   \A k \in DOMAIN second.column_names :
                       Contains(tool_output,
                                "  " \o second.column_names[k] \o ": "
                                \o second.results[i][k] \o "\n")
            /\ ~Contains(tool_output, attempts[1].error)
            /\ ~Contains(tool_output, "Database query failed")

\* The tool has returned the two customers' rows of the retry after a syntax
\* error in the first statement.
C16_Witness ==
    /\ db_pc = "done" /\ Len(attempts) = 2
    /\ attempts[1].sql_query = "SELEC id FROM customers"
    /\ attempts[2].sql_query = "SELECT id, phone FROM customers"
    /\ Contains(tool_output, "Row 2:\n  id: 2\n  phone: 5550\n")

\* What is left of a call of query() under way: the routing and the
\* iterations of the loop still to come, then the making of the answer.
QueryMeasure ==
    CASE pc = "route" -> Len(all_tools) + 3
      [] pc = "exec" -> Len(valid_indices) + 2 - pos
      [] OTHER -> 0

\* C17: whatever fails (the lazy setup, the routing completion, a selected
\* tool, the PII tool, the synthesis completion), a call of query() comes to
\* its end and returns a text: every step of a call under way leads on
\* towards the return and leaves less to do, the loop stands at a tool of
\* all_tools, and what is returned is a text.
C17_QueryAlwaysReturnsText ==
    /\ [](pc = "returned" => answer # NoAnswer)
    /\ []((pc = "exec" /\ pos <= Len(valid_indices))
             => valid_indices[pos] + 1 \in DOMAIN all_tools)
    /\ [][(pc \in {"route", "exec"})
             => (pc' \in {"exec", "returned"} /\ QueryMeasure' < QueryMeasure)]_vars

\* A query has returned a text although both selected tools and the
\* synthesis completion failed.
C17_Witness ==
    /\ pc = "returned" /\ Len(invoked) = 2
    /\ invoked[1].raw.raised /\ invoked[2].raw.raised
    /\ synthesis = Raised
    /\ answer # NoAnswer /\ Contains(answer, "Error: market feed down")

\* Whether the characters i..j of text are one integer literal: a run of
\* digits that no digit precedes or follows.
IsLiteralAt(text, i, j) ==
    /\ \A k \in i..j : IsDigit(CharAt(text, k))
    /\ (i > 1 => ~IsDigit(CharAt(text, i - 1)))
    /\ (j < Len(text) => ~IsDigit(CharAt(text, j + 1)))

\* The values of the integer literals of a text that lie in [0, count).
InRangeLiterals(text, count) ==
    {n \in 0..(count - 1) :
        \E i \in 1..Len(text) : \E j \in i..Len(text) :
            IsLiteralAt(text, i, j) /\ ToInt(SubSeq(text, i, j)) = n}

\* C18: the selected indices are strictly ascending (so without duplicates)
\* and all in [0, number of tools); when the response of the routing
\* completion has an in-range integer literal, the selection is exactly the
\* set of its in-range literals, whatever the keyword heuristics would choose.
C18_SelectionFromLiterals ==
    (pc \in {"exec", "returned"}) =>
        /\ \A i \in DOMAIN valid_indices :
               /\ 0 <= valid_indices[i] /\ valid_indices[i] < Len(all_tools)
               /\ \A j \in DOMAIN valid_indices :
                      i < j => valid_indices[i] < valid_indices[j]
        /\ (~routing.raised /\ InRangeLiterals(routing.text, Len(all_tools)) # {})
               => Range(valid_indices) = InRangeLiterals(routing.text, Len(all_tools))

\* The completion answered "3,4" to a catalog of four tools for a question on
\* which the keyword heuristics choose tools 0 and 2: tool 3 alone is selected.
C18_Witness ==
    /\ pc = "exec" /\ routing = Answered("3,4") /\ Len(all_tools) = 4
    /\ question = "what is Tesla's current price"
    /\ LexicalFallback(all_tools, question, 1) = <<0, 2>>
    /\ valid_indices = <<3>>

\* C19, as claimed: when no column name of a database result matches the PII
\* lexicon, the text the PII step hands to the loop is the tool's output,
\* character for character: no value changed and no disclosure appended.
C19_NoFlaggedColumnNoChange ==
    (pii_pc = "protected" /\ detect_pii_fields(column_names) = {}) =>
        /\ ~protected.raised
        /\ protected.text = formatted_result

\* The business and financial context keywords of the keyword heuristics: the
\* keywords of the filing branch that are not a company's name or ticker.
ContextKeywords == {"company", "business", "strategy", "revenue"}

\* Whether a lower-cased question names the company of a filing tool, by its
\* name, its ticker or its alias.
NamesCompanyOf(tool_name, query_lower) ==
    \/ Contains(Lower(tool_name), "aapl") /\ AnyIn(query_lower, {"apple", "aapl"})
    \/ Contains(Lower(tool_name), "googl")
           /\ AnyIn(query_lower, {"google", "googl", "alphabet"})
    \/ Contains(Lower(tool_name), "tsla") /\ AnyIn(query_lower, {"tesla", "tsla"})

\* C20, as claimed: when the keyword heuristics make the selection, a
\* company's document tool is selected only for a question that names the
\* company and has a context keyword; "what is Tesla's current price" does
\* not select the TSLA document tool.
C20_DocumentToolNeedsContext ==
    (/\ pc \in {"exec", "returned"} /\ ~routing.raised
     /\ InRangeLiterals(routing.text, Len(all_tools)) = {})
        => \A j \in DOMAIN valid_indices :
               ToolAt(valid_indices[j]).kind = "document"
                   => /\ NamesCompanyOf(ToolAt(valid_indices[j]).name, Lower(question))
                      /\ AnyIn(Lower(question), ContextKeywords)

\* The 0-based indices of the tools of all_tools with a given name.
IndicesNamed(name) == {k - 1 : k \in {i \in DOMAIN all_tools : all_tools[i].name = name}}

\* The name of the market tool the function tools are created with.
MarketToolName == "finance_market_search_tool"

\* C21: when the routing completion returns a response without an in-range
\* index, the database tool is selected exactly when the lower-cased question
\* has one of customer, portfolio, holding, database, and the market tool
\* exactly when it has one of price, stock, market, current; the selection
\* depends on the question and the catalog alone.
C21_FallbackKeywords ==
    (/\ pc \in {"exec", "returned"} /\ ~routing.raised
     /\ InRangeLiterals(routing.text, Len(all_tools)) = {})
        => /\ \A idx \in IndicesNamed(DatabaseToolName) :
                  idx \in Range(valid_indices)
                      <=> AnyIn(Lower(question),
                                {"customer", "portfolio", "holding", "database"})
           /\ \A idx \in IndicesNamed(MarketToolName) :
                  idx \in Range(valid_indices)
                      <=> AnyIn(Lower(question),
                                {"price", "stock", "market", "current"})
           /\ valid_indices = SelectIndices(all_tools, question, "")

\* The completion answered "5" to a catalog of four tools: the question about
\* customers selects the database tool alone.
C21_Witness ==
    /\ pc = "exec" /\ routing = Answered("5") /\ Len(all_tools) = 4
    /\ question = "list customers and their emails"
    /\ IndicesNamed(DatabaseToolName) = {1}
    /\ valid_indices = <<1>>

\* The phone entries and the government-identifier entries of the lexicon.
PhoneGroup ==
    {"phone", "phone_number", "telephone", "mobile", "cell", "contact_number"}

GovernmentIdGroup ==
    {"ssn", "social_security_number", "tax_id", "tax_id_number", "ssn_number"}

\* The last four digits of a value after a prefix, the prefix with "****"
\* when the value has fewer than four digits.
KeepLastFour(prefix, value) ==
    IF Len(Digits(value)) >= 4
    THEN prefix \o SubSeq(Digits(value), Len(Digits(value)) - 3, Len(Digits(value)))
    ELSE prefix \o "****"

\* C22, as claimed: the value of a column named by a phone entry of the
\* lexicon is masked as "***-***-" and its last four digits, the value of a
\* column named by a government-identifier entry as "***-**-" and its last
\* four digits, with "****" for the digits when there are fewer than four.
C22_MaskedByCategory ==
    masked # <<>> =>
        /\ (mask_field \in PhoneGroup
               => masked[1] = KeepLastFour("***-***-", mask_value))
        /\ (mask_field \in GovernmentIdGroup
               => masked[1] = KeepLastFour("***-**-", mask_value))

\* The personal-name entries and the email entries of the lexicon.
NameGroup ==
    {"first_name", "last_name", "full_name", "customer_name", "name",
     "given_name", "surname"}

EmailGroup == {"email", "email_address", "e_mail", "e-mail", "email_addr"}

\* C23, as claimed: a personal-name value is masked as "*" repeated
\* min(len(value), 4) times and as "****" when it is empty; an email value is
\* masked as "***@" and its domain when it has an "@", and as "***" when it
\* has none, the empty value included.
C23_NameAndEmailRules ==
    masked # <<>> =>
        /\ (mask_field \in NameGroup
               => masked[1] = IF mask_value = "" THEN "****"
                              ELSE Repeat("*", Min(Len(mask_value), 4)))
        /\ (mask_field \in EmailGroup
               => masked[1] = IF Contains(mask_value, "@")
                              THEN "***@" \o Split1(mask_value, "@")[2]
                              ELSE "***")

\* The lines of the database result, and the lines of what the PII step or
\* the PII tool returned for it, without the disclosure.
LinesBefore == Split(formatted_result, "\n")

LinesAfter == Split(Undisclosed(protected.text), "\n")

\* The field names of the lines where a value was replaced.
MaskedFields ==
    {Strip(LabelOf(LinesBefore[k])) :
        k \in {i \in DOMAIN LinesBefore :
                  i \in DOMAIN LinesAfter /\ LinesAfter[i] # LinesBefore[i]}}

\* Masking replaced at least one value of the result.
MaskingReplaced ==
    /\ pii_pc \in {"protected", "tool_called"}
    /\ ~protected.raised
    /\ ~Contains(protected.text, ErrorNotice)
    /\ Undisclosed(protected.text) # formatted_result

\* The text after the first disclosure heading, and the names it lists.
DisclosureTail ==
    SubSeq(protected.text,
           IndexFrom(protected.text, AppliedNotice, 1) + Len(AppliedNotice),
           Len(protected.text))

DisclosedNames == Split(DisclosureTail, ", ")

\* The first of the lines that carries a field.
FirstLineOf(lines, name) ==
    CHOOSE k \in DOMAIN lines :
        /\ Strip(LabelOf(lines[k])) = name
        /\ \A j \in 1..(k - 1) : Strip(LabelOf(lines[j])) # name

\* The names hold the masked fields, each name once and in the order of the
\* fields' first lines, and flagged fields only.
NamesMaskedFields(names, lines, fields) ==
    /\ fields \subseteq Range(names)
    /\ Range(names) \subseteq detect_pii_fields(column_names)
    /\ \A a \in DOMAIN names : \A b \in DOMAIN names :
           a < b => /\ names[a] # names[b]
                    /\ FirstLineOf(lines, names[a]) < FirstLineOf(lines, names[b])

\* C24: when masking replaced a value, the output ends with one disclosure
\* line; it names every masked field, each name once and in the order of the
\* fields' first lines, and names flagged fields only.  For the columns id
\* and phone with the phone 555-123-4567 the payload shows
\* "phone: ***-***-4567" and the disclosure names phone alone.
C24_DisclosureNamesMaskedFields ==
    MaskingReplaced =>
        /\ Contains(protected.text, AppliedNotice)
        /\ ~Contains(DisclosureTail, AppliedNotice)
        /\ ~Contains(DisclosureTail, "\n")
        /\ NamesMaskedFields(DisclosedNames, LinesBefore, MaskedFields)
        /\ (/\ column_names = <<"id", "phone">>
            /\ \E k \in DOMAIN rows : rows[k][2] = "555-123-4567")
               => /\ Contains(protected.text, "  phone: ***-***-4567\n")
                  /\ DisclosedNames = <<"phone">>

\* The PII step has masked a result of two rows with the columns Name and
\* email: the disclosure names Name, then email, each once.
C24_Witness ==
    /\ pii_pc = "protected" /\ MaskingReplaced
    /\ column_names = <<"Name", "email">> /\ Len(rows) = 2
    /\ rows[1] = <<"John", "john@example.com">>
    /\ MaskedFields = {"Name", "email"}
    /\ DisclosedNames = <<"Name", "email">>

\* The calls that build the tools themselves when the flag is unset.
LazyCalls == {"query", "list_available_tools"}

\* C25, as claimed, for the first two calls on a coordinator: when both are
\* calls of list_available_tools() or query(), the second call does not run
\* _create_tools again, and works on the catalog the first call left.
C25_ConstructionRunsOnce ==
    [][(/\ calls = 1 /\ last_call \in LazyCalls
        /\ calls' = 2 /\ last_call' \in LazyCalls)
          => /\ create_calls' = create_calls
             /\ create_calls' <= 1
             /\ catalog' = catalog]_vars

\* A call of query() begins with this step.
QueryBegins == calls' = calls + 1 /\ last_call' = "query"

\* C26: query() sets the flag whether its lazy setup built the tools or
\* failed, and goes on to the routing; the flag stays set; a call of query()
\* that finds it set runs no setup and works on the tool lists as they are,
\* empty or partial as a failed setup may have left them.
C26_LazySetupTriedOnce ==
    /\ [][QueryBegins => (tools_initialized' /\ pc' = "route")]_vars
    /\ [][tools_initialized => tools_initialized']_vars
    /\ [][(QueryBegins /\ tools_initialized)
             => /\ create_calls' = create_calls
                /\ catalog' = catalog
                /\ all_tools' = AllTools(document_tools, function_tools)]_vars

\* The second of two calls of query() is at its routing, over the document
\* tools alone: the lazy setup of the first call failed in the building of
\* the function tools, and was not run again.
C26_Witness ==
    /\ pc = "route" /\ calls = 2 /\ last_call = "query"
    /\ tools_initialized /\ create_calls = 1
    /\ document_tools = CreatedDocumentTools /\ function_tools = <<>>
    /\ all_tools = AllTools(CreatedDocumentTools, <<>>)

\* What database_query_tool returns for the statement SELECT 1.
SelectOnePayload ==
    "SQL Query: SELECT 1\n\nCOLUMNS: ['1']\n\nDatabase Results:\nRow 1:\n  1: 1\n\n"

\* C27: a generation of SQL whose completion call raised gives the statement
\* SELECT 1; its execution succeeds, no generation follows it, and the tool
\* returns the formatted result of SELECT 1, with its COLUMNS: line, and no
\* failure report.
C27_GenerationFailureRunsSelectOne ==
    \A k \in DOMAIN attempts :
        attempts[k].completion.raised
            => /\ attempts[k].sql_query = "SELECT 1"
               /\ k = Len(attempts)
               /\ attempts[k].executed => attempts[k].success
               /\ db_pc # "failed"
               /\ db_pc = "done"
                      => /\ tool_output = SelectOnePayload
                         /\ ~Contains(tool_output, "Database query failed")

\* The completion call of the first generation raised, and the tool has
\* returned after that one generation.
C27_Witness ==
    /\ db_pc = "done" /\ Len(attempts) = 1
    /\ attempts[1].completion.raised /\ attempts[1].success
    /\ tool_output = SelectOnePayload

\* C28: the masking rule applied to a value it has masked returns that value
\* again, for every field name of the lexicon, and a line that the masking
\* loop visits again keeps the text its first visit gave it.
C28_MaskingIdempotent ==
    /\ \A k \in DOMAIN masked : k > 1 => masked[k] = masked[1]
    /\ \A k \in DOMAIN visited : k > 1 => visited[k] = visited[1]

\* A phone number has been masked twice, and its line visited twice.
C28_Witness ==
    /\ mask_field = "phone" /\ mask_value = "555-123-4567"
    /\ masked = <<"***-***-4567", "***-***-4567">>
    /\ visited = <<"  phone: ***-***-4567", "  phone: ***-***-4567">>

====
